---------------------------- MODULE Spec2Model ----------------------------
(***************************************************************************)
(* A model of SimpleFs (src/src/main.rs): an in-memory FUSE filesystem     *)
(* made of an inode table (HashMap<u64, FileEntry>) and an allocator       *)
(* counter (next_inode), served through the fuser Filesystem handlers      *)
(* lookup, getattr, read, readdir, create, write and unlink.               *)
(*                                                                         *)
(* Each handler is one action.  A handler's request is recorded in `call`  *)
(* and the reply it sends in `reply`.  FileAttr is modelled by its fields  *)
(* ino, size, blocks, kind, perm and nlink; the time stamps and the        *)
(* uid/gid/rdev/flags/blksize fields are left out (no handler reads them). *)
(*                                                                         *)
(* FileEntry holds no name.  `names` is a history variable: the name each  *)
(* regular file of the table was created (or seeded) under.  No handler    *)
(* reads it.  `writes` counts the successful writes, to bound the run, and *)
(* `panicked` holds once a handler has panicked: the session loop unwinds, *)
(* so no later request is served.                                          *)
(*                                                                         *)
(* Spec dispatches one request at a time (each handler takes &mut self).   *)
(* SpecConc runs the handlers on several threads: `pc` and `req` hold each *)
(* thread's position and request, `files_lock` and `next_inode_lock` the   *)
(* thread that holds each Mutex (0 when free).  A request of `req` carries *)
(* a history field, seen_writes: the number of writes that had replied     *)
(* when the request was issued.                                            *)
(***************************************************************************)
EXTENDS Integers, Sequences, FiniteSets, TLC

VARIABLES files, next_inode, names, call, reply, panicked, writes,
          pc, req, files_lock, next_inode_lock

vars == <<files, next_inode, names, call, reply, panicked, writes,
          pc, req, files_lock, next_inode_lock>>

\* what the handlers read and write
fs_vars == <<files, next_inode, names, call, reply, panicked, writes>>

\* the threads' positions and the two locks
thread_vars == <<pc, req, files_lock, next_inode_lock>>

---------------------------------------------------------------------------
(* Bounds of the model *)

\* create is explored while the allocator counter is at most MaxInode
MaxInode == 4
\* at most MaxWrites successful writes are explored
MaxWrites == 2

---------------------------------------------------------------------------
(* Inputs *)

Names == {"fuse.txt", "a", "b"}
Parents == {1, 2}
Inos == 1..MaxInode
Offsets == {-1, 0, 20}
Sizes == {4}
Datas == {<<>>, <<33, 33>>}
\* S_IFREG | 0o644
Modes == {33188}
DirOffsets == {0, 1, 2, 3}
\* the number of entries the reply buffer of a readdir call has room for
Caps == {1, 2, 4}
Threads == {1, 2}
\* the requests the threads of SpecConc issue
ConcCalls ==
  { [op |-> "lookup", parent |-> 1, name |-> "a"],
    [op |-> "read", ino |-> 2, offset |-> 20, size |-> 4],
    [op |-> "create", parent |-> 1, name |-> "a", mode |-> 33188],
    [op |-> "write", ino |-> 2, offset |-> 20, data |-> <<33, 33>>],
    [op |-> "write", ino |-> 2, offset |-> -1, data |-> <<33, 33>>],
    [op |-> "unlink", parent |-> 1, name |-> "a"] }

---------------------------------------------------------------------------
(* Constants of the program *)

ENOENT == "ENOENT"
EISDIR == "EISDIR"
EEXIST == "EEXIST"

Directory == "Directory"
RegularFile == "RegularFile"

HELLO_DIR_ATTR ==
  [ino |-> 1, size |-> 0, blocks |-> 0, kind |-> Directory,
   perm |-> 493, nlink |-> 2]

\* "This is a new file\n"
HELLO_TXT_CONTENT ==
  <<84, 104, 105, 115, 32, 105, 115, 32, 97, 32,
    110, 101, 119, 32, 102, 105, 108, 101, 10>>

HELLO_TXT_ATTR ==
  [ino |-> 2, size |-> 17, blocks |-> 1, kind |-> RegularFile,
   perm |-> 420, nlink |-> 1]

\* FileEntry { attr, content }
FileEntry(attr, content) == [attr |-> attr, content |-> content]

---------------------------------------------------------------------------
(* Integer conversions.  TLC's integers are 32 bits wide, so the 64-bit    *)
(* usize is scaled to UsizeBits bits: `offset as usize` wraps a negative   *)
(* offset to 2^UsizeBits + offset, above IsizeMax and above every length   *)
(* the model reaches, as 2^64 + offset is in the program.                  *)

UsizeBits == 30
UsizeModulus == 2 ^ UsizeBits
IsizeMax == 2 ^ (UsizeBits - 1) - 1

\* offset as usize
AsUsize(offset) == offset % UsizeModulus

Min(a, b) == IF a < b THEN a ELSE b

---------------------------------------------------------------------------
(* Vec<u8> operations *)

\* Vec::resize(new_len, value) as write calls it: new_len > len, so it extends
Resize(v, new_len, value) ==
  v \o [i \in 1..(new_len - Len(v)) |-> value]

\* Vec::splice(start..end, data): replaces v[start..end] by data
Splice(v, start, end, data) ==
  SubSeq(v, 1, start) \o data \o SubSeq(v, end + 1, Len(v))

\* &data[start..end]
Slice(v, start, end) == SubSeq(v, start + 1, end)

---------------------------------------------------------------------------
(* Replies *)

ReplyError(errno) == [kind |-> "error", val |-> errno]
ReplyEntry(attr) == [kind |-> "entry", val |-> attr]
ReplyAttr(attr) == [kind |-> "attr", val |-> attr]
ReplyData(data) == [kind |-> "data", val |-> data]
ReplyCreated(attr) == [kind |-> "created", val |-> attr]
ReplyWritten(n) == [kind |-> "written", val |-> n]
ReplyDirectory(entries) == [kind |-> "directory", val |-> entries]
ReplyOk == [kind |-> "ok", val |-> 0]
NoReply == [kind |-> "none", val |-> 0]

---------------------------------------------------------------------------
(* SimpleFs::new *)

Init ==
  /\ files = (1 :> FileEntry(HELLO_DIR_ATTR, <<>>)
              @@ 2 :> FileEntry(HELLO_TXT_ATTR, HELLO_TXT_CONTENT))
  /\ next_inode = 3
  /\ names = (2 :> "fuse.txt")
  /\ call = [op |-> "new"]
  /\ reply = NoReply
  /\ panicked = FALSE
  /\ writes = 0
  /\ pc = [t \in Threads |-> "idle"]
  /\ req = [t \in Threads |-> [op |-> "none"]]
  /\ files_lock = 0
  /\ next_inode_lock = 0

---------------------------------------------------------------------------
(* lookup *)

\* name.to_str().unwrap_or("")
ToStr(name) == name

\* the entries the loop of lookup replies with: the name is compared with itself
LookupMatches(name) ==
  {ino \in DOMAIN files :
     /\ files[ino].attr.kind # Directory
     /\ ToStr(name) = ToStr(name)}

Lookup(parent, name) ==
  /\ ~panicked
  /\ call' = [op |-> "lookup", parent |-> parent, name |-> name]
  /\ IF parent # 1
       THEN reply' = ReplyError(ENOENT)
       ELSE IF LookupMatches(name) = {}
         THEN reply' = ReplyError(ENOENT)
         \* the first match in the HashMap's iteration order, which is unspecified
         ELSE \E ino \in LookupMatches(name) :
                reply' = ReplyEntry(files[ino].attr)
  /\ UNCHANGED <<files, next_inode, names, panicked, writes>>

---------------------------------------------------------------------------
(* getattr *)

Getattr(ino) ==
  /\ ~panicked
  /\ call' = [op |-> "getattr", ino |-> ino]
  /\ reply' = IF ino \in DOMAIN files
                THEN ReplyAttr(files[ino].attr)
                ELSE ReplyError(ENOENT)
  /\ UNCHANGED <<files, next_inode, names, panicked, writes>>

---------------------------------------------------------------------------
(* read *)

\* ReadData with the end of the slice computed without the offset
ReadData_EndWithoutOffset(data, offset, size) ==
  IF AsUsize(offset) >= Len(data)
    THEN <<>>
    ELSE LET end == Min(size, Len(data))
         IN  Slice(data, AsUsize(offset), end)

\* the bytes read replies with for a regular file's content
ReadData(data, offset, size) ==
  IF AsUsize(offset) >= Len(data)
    THEN <<>>
    ELSE LET end == Min(AsUsize(offset) + size, Len(data))
         IN  Slice(data, AsUsize(offset), end)

ReadReply(ino, offset, size) ==
  IF ino \in DOMAIN files
    THEN IF files[ino].attr.kind = Directory
           THEN ReplyError(EISDIR)
           ELSE ReplyData(ReadData(files[ino].content, offset, size))
    ELSE ReplyError(ENOENT)

Read(ino, offset, size) ==
  /\ ~panicked
  /\ call' = [op |-> "read", ino |-> ino, offset |-> offset, size |-> size]
  /\ reply' = ReadReply(ino, offset, size)
  /\ UNCHANGED <<files, next_inode, names, panicked, writes>>

---------------------------------------------------------------------------
(* readdir *)

\* let entries = vec![...]
ReaddirEntries ==
  << [ino |-> 1, kind |-> Directory, name |-> "."],
     [ino |-> 1, kind |-> Directory, name |-> ".."],
     [ino |-> 2, kind |-> RegularFile, name |-> "fuse.txt"] >>

\* The loop of readdir from the entry of index i (counted from 0) on, with
\* buf the entries added so far.  reply.add(ino, i + 1, kind, name) adds the
\* entry with the offset i + 1 unless the buffer is full; it then returns
\* true and the loop breaks.
RECURSIVE ReaddirLoop(_, _, _)
ReaddirLoop(i, buf, cap) ==
  IF i >= Len(ReaddirEntries)
    THEN buf
    ELSE IF Len(buf) >= cap
      THEN buf
      ELSE LET entry == ReaddirEntries[i + 1]
           IN  ReaddirLoop(i + 1,
                           Append(buf, [ino |-> entry.ino, offset |-> i + 1,
                                        kind |-> entry.kind, name |-> entry.name]),
                           cap)

\* ReaddirReply with the entries skipped up to and including index offset
ReaddirReply_SkipsOneMore(ino, offset, cap) ==
  IF ino # 1
    THEN ReplyError(ENOENT)
    ELSE ReplyDirectory(ReaddirLoop(AsUsize(offset) + 1, <<>>, cap))

\* .enumerate().skip(offset as usize)
ReaddirReply(ino, offset, cap) ==
  IF ino # 1
    THEN ReplyError(ENOENT)
    ELSE ReplyDirectory(ReaddirLoop(AsUsize(offset), <<>>, cap))

Readdir(ino, offset, cap) ==
  /\ ~panicked
  /\ call' = [op |-> "readdir", ino |-> ino, offset |-> offset, cap |-> cap]
  /\ reply' = ReaddirReply(ino, offset, cap)
  /\ UNCHANGED <<files, next_inode, names, panicked, writes>>

---------------------------------------------------------------------------
(* create *)

\* CreateExists with the kind test inverted: no entry ever matches
CreateExists_KindInverted ==
  \E ino \in DOMAIN files :
    /\ files[ino].attr.kind = Directory
    /\ files[ino].attr.ino # 1
    /\ files[ino].attr.ino # 2

\* files.values().any(...): some regular file other than inodes 1 and 2 exists
CreateExists ==
  \E ino \in DOMAIN files :
    /\ files[ino].attr.kind # Directory
    /\ files[ino].attr.ino # 1
    /\ files[ino].attr.ino # 2

\* the FileAttr create builds
CreateAttr(new_inode, mode) ==
  [ino |-> new_inode, size |-> 0, blocks |-> 0, kind |-> RegularFile,
   perm |-> mode % 512, nlink |-> 1]

\* Create with the counter left as it was after a successful create
Create_NoIncrement(parent, name, mode) ==
  /\ ~panicked
  /\ call' = [op |-> "create", parent |-> parent, name |-> name, mode |-> mode]
  /\ IF parent # 1
       THEN /\ reply' = ReplyError(ENOENT)
            /\ UNCHANGED <<files, names>>
       ELSE IF CreateExists
         THEN /\ reply' = ReplyError(EEXIST)
              /\ UNCHANGED <<files, names>>
         ELSE LET new_inode == next_inode
                  file_attr == CreateAttr(new_inode, mode)
              IN  /\ files' = (new_inode :> FileEntry(file_attr, <<>>)) @@ files
                  /\ names' = (new_inode :> name) @@ names
                  /\ reply' = ReplyCreated(file_attr)
  /\ UNCHANGED <<next_inode, panicked, writes>>

\* Create with the id allocated before the existence check
Create_AllocatesBeforeCheck(parent, name, mode) ==
  /\ ~panicked
  /\ call' = [op |-> "create", parent |-> parent, name |-> name, mode |-> mode]
  /\ IF parent # 1
       THEN /\ reply' = ReplyError(ENOENT)
            /\ UNCHANGED <<files, next_inode, names>>
       ELSE /\ next_inode <= MaxInode
            /\ next_inode' = next_inode + 1
            /\ IF CreateExists
                 THEN /\ reply' = ReplyError(EEXIST)
                      /\ UNCHANGED <<files, names>>
                 ELSE LET new_inode == next_inode
                          file_attr == CreateAttr(new_inode, mode)
                      IN  /\ files' = (new_inode :> FileEntry(file_attr, <<>>)) @@ files
                          /\ names' = (new_inode :> name) @@ names
                          /\ reply' = ReplyCreated(file_attr)
  /\ UNCHANGED <<panicked, writes>>

Create(parent, name, mode) ==
  /\ ~panicked
  /\ call' = [op |-> "create", parent |-> parent, name |-> name, mode |-> mode]
  /\ IF parent # 1
       THEN /\ reply' = ReplyError(ENOENT)
            /\ UNCHANGED <<files, next_inode, names>>
       ELSE IF CreateExists
         THEN /\ reply' = ReplyError(EEXIST)
              /\ UNCHANGED <<files, next_inode, names>>
         ELSE /\ next_inode <= MaxInode
              /\ LET new_inode == next_inode
                     file_attr == CreateAttr(new_inode, mode)
                 IN  /\ next_inode' = next_inode + 1
                     /\ files' = (new_inode :> FileEntry(file_attr, <<>>)) @@ files
                     /\ names' = (new_inode :> name) @@ names
                     /\ reply' = ReplyCreated(file_attr)
  /\ UNCHANGED <<panicked, writes>>

---------------------------------------------------------------------------
(* write *)

\* WriteContent without the resize: the data is placed at the end of the content
WriteContent_NoResize(content, start, data) ==
  LET at == Min(start, Len(content))
  IN  Splice(content, at, at, data)

\* the content after write's resize and splice
WriteContent(content, start, data) ==
  LET resized == IF start > Len(content)
                   THEN Resize(content, start, 0)
                   ELSE content
  IN  Splice(resized, start, start, data)

Write(ino, offset, data) ==
  /\ ~panicked
  /\ call' = [op |-> "write", ino |-> ino, offset |-> offset, data |-> data]
  /\ IF ino \notin DOMAIN files
       THEN /\ reply' = ReplyError(ENOENT)
            /\ UNCHANGED <<files, panicked, writes>>
       ELSE IF files[ino].attr.kind = Directory
         THEN /\ reply' = ReplyError(EISDIR)
              /\ UNCHANGED <<files, panicked, writes>>
         ELSE LET start == AsUsize(offset)
                  entry == files[ino]
              IN  IF start > Len(entry.content) /\ start > IsizeMax
                    \* Vec::resize panics ("capacity overflow") before it
                    \* changes the Vec; no reply is sent by the handler
                    THEN /\ panicked' = TRUE
                         /\ reply' = NoReply
                         /\ UNCHANGED <<files, writes>>
                    ELSE /\ writes < MaxWrites
                         /\ LET content == WriteContent(entry.content, start, data)
                            IN  files' = [files EXCEPT ![ino] =
                                  FileEntry([entry.attr EXCEPT !.size = Len(content)],
                                            content)]
                         /\ writes' = writes + 1
                         /\ reply' = ReplyWritten(Len(data))
                         /\ UNCHANGED panicked
  /\ UNCHANGED <<next_inode, names>>

---------------------------------------------------------------------------
(* unlink *)

\* UnlinkMatches without the test of the kind and of the inode
UnlinkMatches_AnyEntry == DOMAIN files

\* the entries files.iter().find(...) may return: the name is not compared
UnlinkMatches ==
  {ino \in DOMAIN files :
     /\ files[ino].attr.kind # Directory
     /\ files[ino].attr.ino # 1}

\* HashMap::remove
Remove(map, key) == [k \in DOMAIN map \ {key} |-> map[k]]

Unlink(parent, name) ==
  /\ ~panicked
  /\ call' = [op |-> "unlink", parent |-> parent, name |-> name]
  /\ IF parent # 1
       THEN /\ reply' = ReplyError(ENOENT)
            /\ UNCHANGED <<files, names>>
       ELSE IF UnlinkMatches = {}
         THEN /\ reply' = ReplyError(ENOENT)
              /\ UNCHANGED <<files, names>>
         \* the first match in the HashMap's iteration order, which is unspecified
         ELSE \E ino \in UnlinkMatches :
                /\ files' = Remove(files, ino)
                /\ names' = Remove(names, ino)
                /\ reply' = ReplyOk
  /\ UNCHANGED <<next_inode, panicked, writes>>

---------------------------------------------------------------------------
(* The requests the host bridge dispatches *)

\* one request at a time: each handler takes and drops its locks within the step
Next ==
  \/ \E parent \in Parents, name \in Names :
       Lookup(parent, name) /\ UNCHANGED thread_vars
  \/ \E ino \in Inos :
       Getattr(ino) /\ UNCHANGED thread_vars
  \/ \E ino \in Inos, offset \in Offsets, size \in Sizes :
       Read(ino, offset, size) /\ UNCHANGED thread_vars
  \/ \E ino \in Parents, offset \in DirOffsets, cap \in Caps :
       Readdir(ino, offset, cap) /\ UNCHANGED thread_vars
  \/ \E parent \in Parents, name \in Names, mode \in Modes :
       Create(parent, name, mode) /\ UNCHANGED thread_vars
  \/ \E ino \in Inos, offset \in Offsets, data \in Datas :
       Write(ino, offset, data) /\ UNCHANGED thread_vars
  \/ \E parent \in Parents, name \in Names :
       Unlink(parent, name) /\ UNCHANGED thread_vars

Spec == Init /\ [][Next]_vars

---------------------------------------------------------------------------
(* The handlers on several threads.  A handler locks `files` first (create  *)
(* then locks `next_inode`), runs its body, which is the handler's action,  *)
(* and drops its guards when it returns.  A panic in the body drops the     *)
(* guard while unwinding and poisons the Mutex: each later lock().unwrap()  *)
(* panics in its turn.                                                      *)

\* the bridge hands a request to an idle thread
Call(t, c) ==
  /\ pc[t] = "idle"
  /\ pc' = [pc EXCEPT ![t] = "lock_files"]
  /\ req' = [req EXCEPT ![t] = c @@ [seen_writes |-> writes]]
  /\ UNCHANGED <<fs_vars, files_lock, next_inode_lock>>

\* LockFiles that does not wait for the Mutex to be free
LockFiles_NoWait(t) ==
  /\ pc[t] = "lock_files"
  /\ IF panicked
       THEN /\ pc' = [pc EXCEPT ![t] = "panicked"]
            /\ UNCHANGED files_lock
       ELSE /\ files_lock' = t
            /\ pc' = [pc EXCEPT ![t] =
                        IF req[t].op = "create" THEN "lock_next_inode" ELSE "body"]
  /\ UNCHANGED <<fs_vars, req, next_inode_lock>>

\* self.files.lock().unwrap()
LockFiles(t) ==
  /\ pc[t] = "lock_files"
  /\ files_lock = 0
  /\ IF panicked
       THEN /\ pc' = [pc EXCEPT ![t] = "panicked"]
            /\ UNCHANGED files_lock
       ELSE /\ files_lock' = t
            /\ pc' = [pc EXCEPT ![t] =
                        IF req[t].op = "create" THEN "lock_next_inode" ELSE "body"]
  /\ UNCHANGED <<fs_vars, req, next_inode_lock>>

\* self.next_inode.lock().unwrap()
LockNextInode(t) ==
  /\ pc[t] = "lock_next_inode"
  /\ next_inode_lock = 0
  /\ next_inode_lock' = t
  /\ pc' = [pc EXCEPT ![t] = "body"]
  /\ UNCHANGED <<fs_vars, req, files_lock>>

\* the handler of request c
Handler(c) ==
  CASE c.op = "lookup" -> Lookup(c.parent, c.name)
    [] c.op = "read" -> Read(c.ino, c.offset, c.size)
    [] c.op = "create" -> Create(c.parent, c.name, c.mode)
    [] c.op = "write" -> Write(c.ino, c.offset, c.data)
    [] c.op = "unlink" -> Unlink(c.parent, c.name)

\* the handler's body, from its first access to the table to its reply
Body(t) ==
  /\ pc[t] = "body"
  /\ Handler(req[t])
  /\ IF panicked'
       THEN /\ pc' = [pc EXCEPT ![t] = "panicked"]
            /\ files_lock' = 0
       ELSE /\ pc' = [pc EXCEPT ![t] = "return"]
            /\ UNCHANGED files_lock
  /\ UNCHANGED <<req, next_inode_lock>>

\* the handler returns: its guards are dropped
Return(t) ==
  /\ pc[t] = "return"
  /\ pc' = [pc EXCEPT ![t] = "idle"]
  /\ files_lock' = 0
  /\ next_inode_lock' = IF next_inode_lock = t THEN 0 ELSE next_inode_lock
  /\ req' = [req EXCEPT ![t] = [op |-> "none"]]
  /\ UNCHANGED fs_vars

NextConc ==
  \E t \in Threads :
    \/ \E c \in ConcCalls : Call(t, c)
    \/ LockFiles(t)
    \/ LockNextInode(t)
    \/ Body(t)
    \/ Return(t)

SpecConc == Init /\ [][NextConc]_vars

---------------------------------------------------------------------------
(* Properties.  A file "has the name n" when the table holds an entry that  *)
(* was created (or seeded) under n: names[ino] = n.                         *)

Named(name) == {ino \in DOMAIN names : names[ino] = name}

IsError(r, errno) == r.kind = "error" /\ r.val = errno

Zeros(n) == [i \in 1..n |-> 0]

Max(a, b) == IF a > b THEN a ELSE b

\* C1: after a lookup(1, name), for every file of the table that has the
\* name `name`, the reply is the entry reply carrying that file's attributes
\* (its inode id and its current size), not those of another file.
C1_LookupRepliesNamedChild ==
  (call.op = "lookup" /\ call.parent = 1) =>
    \A ino \in Named(call.name) : reply = ReplyEntry(files[ino].attr)

\* C2: a lookup whose parent is not the root, or whose name no file of the
\* table has, replies ENOENT.
C2_LookupNotFound ==
  (call.op = "lookup" /\ (call.parent # 1 \/ Named(call.name) = {})) =>
    IsError(reply, ENOENT)

\* C3: a create(1, name, mode) issued while a file of the table has the name
\* `name` replies EEXIST.
C3_CreateExistingNameFails ==
  [][(/\ call'.op = "create"
      /\ call'.parent = 1
      /\ Named(call'.name) # {})
     => IsError(reply', EEXIST)]_vars

\* C4: a create(1, name, mode) issued while no file of the table has the name
\* `name` succeeds: it replies created, inserts one entry under a fresh id
\* and leaves the existing entries unchanged.
C4_CreateNewNameSucceeds ==
  [][(/\ call'.op = "create"
      /\ call'.parent = 1
      /\ Named(call'.name) = {})
     => /\ reply'.kind = "created"
        /\ reply'.val.ino \notin DOMAIN files
        /\ DOMAIN files' = DOMAIN files \cup {reply'.val.ino}
        /\ \A ino \in DOMAIN files : files'[ino] = files[ino]]_vars

\* C5: a lookup(parent, name) that immediately follows a successful
\* unlink(parent, name) replies ENOENT.
C5_LookupAfterUnlinkNotFound ==
  [][(/\ call.op = "unlink"
      /\ reply.kind = "ok"
      /\ call'.op = "lookup"
      /\ call'.parent = call.parent
      /\ call'.name = call.name)
     => IsError(reply', ENOENT)]_vars

\* C6: an unlink whose parent is not the root, or whose name no file of the
\* table has, replies ENOENT and leaves the table unchanged.
C6_UnlinkMissingNameNotFound ==
  [][(/\ call'.op = "unlink"
      /\ (call'.parent # 1 \/ Named(call'.name) = {}))
     => /\ IsError(reply', ENOENT)
        /\ files' = files]_vars

\* C7: a successful unlink(parent, name) removes exactly the one entry that
\* has the name `name` and leaves every other entry unchanged.
C7_UnlinkRemovesNamedEntry ==
  [][(call'.op = "unlink" /\ reply'.kind = "ok")
     => \E ino \in Named(call'.name) :
          /\ Named(call'.name) = {ino}
          /\ DOMAIN files' = DOMAIN files \ {ino}
          /\ \A other \in DOMAIN files' : files'[other] = files[other]]_vars

\* C8: a successful write(ino, offset, data) with 0 <= offset <= len(content)
\* overwrites in place: the new length is max(old length, offset + len(data)),
\* the bytes at [offset, offset + len(data)) are data and every other byte
\* keeps its value at its position.
C8_WriteOverwritesInPlace ==
  [][(/\ call'.op = "write"
      /\ reply'.kind = "written"
      /\ call'.offset >= 0
      /\ call'.offset <= Len(files[call'.ino].content))
     => LET old == files[call'.ino].content
            new == files'[call'.ino].content
            offset == call'.offset
            data == call'.data
        IN  /\ Len(new) = Max(Len(old), offset + Len(data))
            /\ \A i \in 1..Len(new) :
                 new[i] = IF i > offset /\ i <= offset + Len(data)
                            THEN data[i - offset]
                            ELSE old[i]]_vars

\* C9: after a successful write(ino, offset, data) with offset greater than
\* the content length, read(ino, 0, offset + len(data)) replies the old
\* content, then zeros up to offset, then data.
C9_WriteBeyondEndZeroFills ==
  [][(call'.op = "write" /\ reply'.kind = "written") =>
       \A ino \in Inos, offset \in Offsets, data \in Datas :
         (/\ call' = [op |-> "write", ino |-> ino, offset |-> offset, data |-> data]
          /\ offset > Len(files[ino].content))
         => LET old == files[ino].content
            IN  ReadReply(ino, 0, offset + Len(data))' =
                  ReplyData(old \o Zeros(offset - Len(old)) \o data)]_vars

\* a write at offset 20 into the 19 seeded bytes has filled one zero
C9_Witness ==
  /\ call = [op |-> "write", ino |-> 2, offset |-> 20, data |-> <<33, 33>>]
  /\ reply = ReplyWritten(2)
  /\ files[2].content = HELLO_TXT_CONTENT \o <<0, 33, 33>>

\* C10: read(ino, offset, size) with offset >= 0 replies ENOENT when ino is
\* not in the table, EISDIR when ino is the root directory, and for a regular
\* file content[offset .. min(offset + size, len)], which is empty when
\* offset >= len; it never replies bytes beyond the end of the content.
C10_ReadRepliesSlice ==
  (call.op = "read" /\ call.offset >= 0) =>
    IF call.ino \notin DOMAIN files
      THEN IsError(reply, ENOENT)
      ELSE IF call.ino = 1
        THEN IsError(reply, EISDIR)
        ELSE LET content == files[call.ino].content
                 n == IF call.offset >= Len(content)
                        THEN 0
                        ELSE Min(call.offset + call.size, Len(content))
                               - call.offset
             IN  /\ files[call.ino].attr.kind = RegularFile
                 /\ reply.kind = "data"
                 /\ Len(reply.val) = n
                 /\ \A i \in 1..n : reply.val[i] = content[call.offset + i]

\* a read at offset 20 of a file grown to 22 bytes replied its last two bytes
C10_Witness ==
  /\ call = [op |-> "read", ino |-> 2, offset |-> 20, size |-> 4]
  /\ Len(files[2].content) = 22
  /\ reply = ReplyData(<<33, 33>>)

\* C13: the allocator counter starts at 3, grows by exactly one in a
\* successful create, which issues the counter's previous value as an id not
\* in the table, and changes in no other step; it stays greater than every
\* id of the table.
C13_AllocatorCounter ==
  /\ next_inode = 3
  /\ [][/\ IF call'.op = "create" /\ reply'.kind = "created"
             THEN /\ next_inode' = next_inode + 1
                  /\ reply'.val.ino = next_inode
                  /\ next_inode \notin DOMAIN files
             ELSE next_inode' = next_inode
        /\ \A ino \in DOMAIN files' : ino < next_inode']_vars

\* a second create has issued id 4 after the file with id 3 was unlinked
C13_Witness ==
  /\ call.op = "create"
  /\ reply.kind = "created"
  /\ reply.val.ino = 4
  /\ 3 \notin DOMAIN files
  /\ next_inode = 5

\* C14: a call that replies an error leaves the inode table and the
\* allocator counter as they were: in particular a create replying ENOENT or
\* EEXIST and a write replying ENOENT or EISDIR.
C14_ErrorsHaveNoEffect ==
  [][reply'.kind = "error" =>
       /\ files' = files
       /\ next_inode' = next_inode]_vars

\* a create has replied EEXIST while the file with id 3 is in the table
C14_Witness ==
  /\ call.op = "create"
  /\ IsError(reply, EEXIST)
  /\ 3 \in DOMAIN files

\* C16: every regular file of the table has attr.size equal to the length of
\* its content.
C16_SizeIsContentLength ==
  \A ino \in DOMAIN files :
    files[ino].attr.kind = RegularFile =>
      files[ino].attr.size = Len(files[ino].content)

\* C17: the table holds the root, entry 1, a Directory with its seeded
\* attributes, and every other entry is a RegularFile whose key is its
\* attr.ino.
C17_OneRootDirectory ==
  /\ 1 \in DOMAIN files
  /\ files[1] = FileEntry(HELLO_DIR_ATTR, <<>>)
  /\ \A ino \in DOMAIN files \ {1} :
       /\ files[ino].attr.kind = RegularFile
       /\ files[ino].attr.ino = ino

\* an unlink has removed the last regular file and the root is the only entry
C17_Witness ==
  /\ call.op = "unlink"
  /\ reply.kind = "ok"
  /\ DOMAIN files = {1}

\* C20: the table holds at most one entry with an id other than 1 and 2; a
\* create under the root replies EEXIST whenever such an entry is present,
\* and no step adds more than one entry.
C20_AtMostOneCreatedFile ==
  [][/\ Cardinality(DOMAIN files' \ {1, 2}) <= 1
     /\ Cardinality(DOMAIN files' \ DOMAIN files) <= 1
     /\ (/\ call'.op = "create"
         /\ call'.parent = 1
         /\ DOMAIN files \ {1, 2} # {})
        => IsError(reply', EEXIST)]_vars

\* a create has replied EEXIST in a table of three entries
C20_Witness ==
  /\ call.op = "create"
  /\ call.parent = 1
  /\ IsError(reply, EEXIST)
  /\ Cardinality(DOMAIN files) = 3

\* the enumeration one readdir(1, 0) call gives when its buffer has room for
\* every entry
FullListing == ReaddirReply(1, 0, Len(ReaddirEntries) + 1).val

\* the entries that follow the first k entries of the full enumeration, as
\* many as a buffer of cap entries takes
PageAfter(k, cap) ==
  SubSeq(FullListing, k + 1, k + Min(cap, Len(FullListing) - k))

\* C11: a readdir on an id other than the root replies ENOENT.  A readdir(1, 0)
\* replies the first entries of the full enumeration, which starts with `.`
\* and `..`; a readdir(1, offset) whose offset is the one delivered with the
\* last entry of the readdir reply before it replies the entries that follow
\* that entry in the full enumeration, at least one while any is left: the
\* pages are the full enumeration, each entry once and in order.
C11_ReaddirPagination ==
  [][call'.op = "readdir" =>
       IF call'.ino # 1
         THEN IsError(reply', ENOENT)
         ELSE /\ reply'.kind = "directory"
              /\ FullListing[1].name = "."
              /\ FullListing[2].name = ".."
              /\ call'.offset = 0 => reply'.val = PageAfter(0, call'.cap)
              /\ (/\ call.op = "readdir"
                  /\ call.ino = 1
                  /\ reply.val # <<>>
                  /\ call'.offset = reply.val[Len(reply.val)].offset)
                 => \E k \in 1..Len(FullListing) :
                      /\ FullListing[k] = reply.val[Len(reply.val)]
                      /\ reply'.val = PageAfter(k, call'.cap)]_vars

\* a readdir that continues at offset 2 has delivered the third entry
C11_Witness ==
  /\ call = [op |-> "readdir", ino |-> 1, offset |-> 2, cap |-> 2]
  /\ reply = ReplyDirectory(<< [ino |-> 2, offset |-> 3,
                                kind |-> RegularFile, name |-> "fuse.txt"] >>)

\* C12: the full enumeration of readdir(1, 0) (a reply that did not fill the
\* buffer) is `.`, `..` and exactly one entry (id, RegularFile, name) for
\* each regular file of the table.
C12_ReaddirListsTable ==
  (/\ call.op = "readdir"
   /\ call.ino = 1
   /\ call.offset = 0
   /\ reply.kind = "directory"
   /\ Len(reply.val) < call.cap)
  => /\ Len(reply.val) = 2 + Cardinality(DOMAIN names)
     /\ reply.val[1].name = "."
     /\ reply.val[2].name = ".."
     /\ {[ino |-> reply.val[i].ino, kind |-> reply.val[i].kind,
          name |-> reply.val[i].name] : i \in 3..Len(reply.val)}
          = {[ino |-> ino, kind |-> RegularFile, name |-> names[ino]] :
               ino \in DOMAIN names}

\* C15: a read or a write with a negative offset is rejected with an error
\* reply; no handler has panicked, and the content of the file is as before
\* the call (an error reply changes nothing, by C14).
C15_NegativeOffsetRejected ==
  (call.op \in {"read", "write"} /\ call.offset < 0) =>
    /\ ~panicked
    /\ reply.kind = "error"

\* the positions of a handler between taking the lock of the table and
\* dropping it
InTable == {"lock_next_inode", "body", "return"}

\* C18: a thread is between its lock of the table and its return only while
\* it holds the table's lock, so at most one is; a create runs its body
\* holding the counter's lock too; every change of the table, the counter or
\* the reply is the body of the handler of the thread that holds the lock,
\* run as one sequential step; and a read(2, 20, 4) issued after a
\* write(2, 20, "!!") has replied, if it replies data, replies the bytes of
\* that write.
C18_TableLockSerializes ==
  [][/\ \A t \in Threads : pc'[t] \in InTable => files_lock' = t
     /\ \A t \in Threads :
          (pc'[t] = "body" /\ req'[t].op = "create") => next_inode_lock' = t
     /\ fs_vars' # fs_vars =>
          \E t \in Threads :
            /\ pc[t] = "body"
            /\ files_lock = t
            /\ Handler(req[t])
     /\ \A t \in Threads :
          (/\ pc[t] = "body"
           /\ pc'[t] = "return"
           /\ req[t].op = "read"
           /\ req[t].seen_writes >= 1
           /\ reply'.kind = "data")
          => /\ Len(reply'.val) >= 2
             /\ SubSeq(reply'.val, 1, 2) = <<33, 33>>]_vars

\* a read issued after a write replied has returned the written bytes while
\* the other thread waits for the lock
C18_Witness ==
  \E t \in Threads, u \in Threads :
    /\ t # u
    /\ pc[t] = "return"
    /\ req[t].op = "read"
    /\ req[t].seen_writes >= 1
    /\ reply = ReplyData(<<33, 33>>)
    /\ files_lock = t
    /\ pc[u] = "lock_files"

\* C19: no call ends without a reply (no thread has panicked), and a thread
\* that has returned holds no lock.
C19_EveryCallReplies ==
  \A t \in Threads :
    /\ pc[t] # "panicked"
    /\ pc[t] = "idle" => (files_lock # t /\ next_inode_lock # t)

===========================================================================
